---------------------------- MODULE Spec2Model ----------------------------
(***************************************************************************)
(* A model of the co2mon driver (crates co2mon and zg-co2): the frame      *)
(* decryptor, the packet decoder and the Sensor::read accumulation loop.   *)
(*                                                                         *)
(* Arrays keep the source's 0-based indices: a [u8; n] is a function with  *)
(* domain 0..n-1.  A u8 is an integer in 0..255 and every u8 operation is  *)
(* written with its wrap-around.  An f32 is the pair [m, e] standing for   *)
(* m * 2^e, normalised to a 24-bit mantissa, and every f32 operation       *)
(* rounds to nearest, ties to even, as IEEE 754 does.                      *)
(***************************************************************************)
EXTENDS Integers, Sequences, FiniteSets, TLC

VARIABLES
    packet,       \* decode harness: the [u8; 5] given to zg_co2::decode
    decoded,      \* decode harness: what decode returned for it
    frame,        \* decrypt harness: the [u8; 8] given to decrypt
    dkey,         \* decrypt harness: the key given to decrypt
    block,        \* decrypt harness: what decrypt returned
    measurement,  \* serde harness: the SingleReading given to serialize
    wire,         \* serde harness: what the format wrote for it
    back,         \* serde harness: what deserialize made of that
    key,          \* Sensor.key
    timeout,      \* Sensor.timeout: milliseconds, -1 to block indefinitely
    device,       \* Sensor.device: what the HID device at the other end sends
    options,      \* the OpenOptions the sensor is opened with
    opened,       \* what Sensor::open returned
    pc,           \* "closed" before Sensor::open, "idle" on an open Sensor,
                  \* "reading" inside the loop of Sensor::read
    clock,        \* Instant::now(), in milliseconds
    start,        \* Sensor::read: start
    temperature,  \* Sensor::read: the Option<f32> slot
    co2,          \* Sensor::read: the Option<u16> slot
    result,       \* what the last call of Sensor::read returned
    one,          \* the last read_one of this call of read, with what it did
    seen,         \* history: the kinds decoded so far in this call of read
    firstT,       \* history: the first Temperature decoded in this call
    lastT,        \* history: the latest Temperature decoded in this call
    firstC,       \* history: the first CO2 decoded in this call
    lastC         \* history: the latest CO2 decoded in this call

serde   == <<measurement, wire, back>>
harness == <<packet, decoded, frame, dkey, block, serde>>
sensor  == <<key, timeout, device, options, opened>>
history == <<seen, firstT, lastT, firstC, lastC>>
vars == <<packet, decoded, frame, dkey, block, measurement, wire, back, key,
          timeout, device, options,
          opened, pc, clock, start, temperature, co2, result, one, seen, firstT,
          lastT, firstC, lastC>>

(***************************************************************************)
(* u8 arithmetic                                                           *)
(***************************************************************************)
RECURSIVE Pow2(_)
Pow2(k) == IF k = 0 THEN 1 ELSE 2 * Pow2(k - 1)

\* a << k on u8: the bits shifted out of the byte are lost
Shl8(a, k) == (a * Pow2(k)) % 256

\* a >> k on u8
Shr8(a, k) == a \div Pow2(k)

RECURSIVE OrBits(_, _, _)
OrBits(a, b, n) ==
    IF n = 0 THEN 0
    ELSE (IF a % 2 = 1 \/ b % 2 = 1 THEN 1 ELSE 0)
         + 2 * OrBits(a \div 2, b \div 2, n - 1)

RECURSIVE XorBits(_, _, _)
XorBits(a, b, n) ==
    IF n = 0 THEN 0
    ELSE ((a + b) % 2) + 2 * XorBits(a \div 2, b \div 2, n - 1)

\* a | b on u8
Or8(a, b) == OrBits(a, b, 8)

\* a ^ b on u8
Xor8(a, b) == XorBits(a, b, 8)

\* u8::wrapping_add, u8::wrapping_sub
WrappingAdd(a, b) == (a + b) % 256
WrappingSub(a, b) == (a - b + 256) % 256

\* an array literal: Arr(<<a, b, c>>) is the array [a, b, c] indexed from 0
Arr(s) == [i \in 0..(Len(s) - 1) |-> s[i + 1]]

\* slice::swap
Swap(a, i, j) == [a EXCEPT ![i] = a[j], ![j] = a[i]]

\* The one element of a set of one.  Only({F(x) : x \in {v}}) is F(v) with v
\* computed once, before F uses it: a `let x = v;` of the source.
Only(S) == CHOOSE y \in S : TRUE

(***************************************************************************)
(* f32 arithmetic.  [m, e] is m * 2^e with 2^23 <= |m| < 2^24, or zero.    *)
(***************************************************************************)
RECURSIVE BitLen(_)
BitLen(n) == IF n = 0 THEN 0 ELSE 1 + BitLen(n \div 2)

F32Zero == [m |-> 0, e |-> 0]

\* the f32 of sign sg and magnitude q * 2^e, for 0 <= q <= 2^24
F32Norm(sg, q, e) ==
    IF q = 0 THEN F32Zero
    ELSE IF q >= 16777216 THEN [m |-> sg * (q \div 2), e |-> e + 1]
    ELSE LET s == 24 - BitLen(q) IN [m |-> sg * q * Pow2(s), e |-> e - s]

\* The f32 nearest to sg * (hi * 4096 + lo) * 2^e, ties to even: the rounding
\* every f32 operation applies to its exact result.  0 <= lo < 4096, and the
\* magnitude comes in two halves because it can take 40 bits.
F32Round(sg, hi, lo, e) ==
    IF hi < 4096 THEN F32Norm(sg, hi * 4096 + lo, e)
    ELSE LET d    == BitLen(hi) - 12
             q    == IF d <= 12 THEN hi * Pow2(12 - d) + lo \div Pow2(d)
                     ELSE hi \div Pow2(d - 12)
             r    == IF d <= 12 THEN lo % Pow2(d)
                     ELSE (hi % Pow2(d - 12)) * 4096 + lo
             half == Pow2(d - 1)
             up   == r > half \/ (r = half /\ q % 2 = 1)
         IN F32Norm(sg, IF up THEN q + 1 ELSE q, e + d)

\* f32::from(u16): exact, a u16 has 16 bits
F32FromU16(v) == F32Norm(1, v, 0)

\* the literal 0.01 as f32: 0x3C23D70A = 10737418 * 2^-30
F32_0_01 == [m |-> 10737418, e |-> -30]

\* the literal 0.0625 as f32: 2^-4 exactly
F32_0_0625 == [m |-> 8388608, e |-> -27]

\* the literal 273.15 as f32: 0x43889333 = 8950579 * 2^-15
F32_273_15 == [m |-> 8950579, e |-> -15]

\* a * b on f32, for a >= 0 of at most 16 significant bits and b > 0
F32Mul(a, b) ==
    IF a.m = 0 THEN F32Zero
    ELSE LET av == a.m \div 256          \* a.m = av * 2^8, av < 2^16
             hi == av * (b.m \div 4096)
             lo == av * (b.m % 4096)
         IN F32Round(1, hi + lo \div 4096, lo % 4096, a.e + 8 + b.e)

\* a - b on f32, for 0 <= a < 4096 a multiple of 2^-15 and b = 273.15f32:
\* both are integers in units of 2^-15, the difference is exact before rounding
F32Sub(a, b) ==
    LET a15 == IF a.e + 15 >= 0 THEN a.m * Pow2(a.e + 15)
               ELSE a.m \div Pow2(-(a.e + 15))
        b15 == b.m * Pow2(b.e + 15)
        d   == a15 - b15
        mag == IF d < 0 THEN -d ELSE d
    IN F32Round(IF d < 0 THEN -1 ELSE 1, mag \div 4096, mag % 4096, -15)

(***************************************************************************)
(* zg_co2: SingleReading, Error and decode                                 *)
(***************************************************************************)
\* SingleReading: kind names the variant; f is the f32 payload of Humidity
\* and Temperature, u the u16 payload of CO2 and Unknown, k Unknown's byte
Humidity(x)    == [kind |-> "Humidity",    f |-> x,       u |-> 0, k |-> 0]
Temperature(x) == [kind |-> "Temperature", f |-> x,       u |-> 0, k |-> 0]
CO2(v)         == [kind |-> "CO2",         f |-> F32Zero, u |-> v, k |-> 0]
Unknown(b, v)  == [kind |-> "Unknown",     f |-> F32Zero, u |-> v, k |-> b]

NoReading == [kind |-> "none", f |-> F32Zero, u |-> 0, k |-> 0]

\* Result<T>: Ok(reading) or Err(error)
Ok(r)  == [ok |-> TRUE,  err |-> "none", reading |-> r]
Err(x) == [ok |-> FALSE, err |-> x,      reading |-> NoReading]

\* the result of a call that has not returned
Pending == [ok |-> FALSE, err |-> "pending", reading |-> NoReading]

\* ValueOf gone wrong: the two bytes taken in little-endian order
ValueOfLittleEndian(data) == OrBits((data[2] * 256) % 65536, data[1], 16)

\* u16::from(data[1]) << 8 | u16::from(data[2])
ValueOf(data) == OrBits((data[1] * 256) % 65536, data[2], 16)

\* the checksum test of decode: TRUE when decode fails with Checksum
ChecksumFails(data) ==
    WrappingAdd(WrappingAdd(data[0], data[1]), data[2]) # data[3]

\* the terminator test of decode: TRUE when decode fails with InvalidMessage
TerminatorFails(data) == data[4] # 13

\* ReadingOf gone wrong: the temperature left in kelvins
ReadingOfInKelvins(data) ==
    LET value == ValueOf(data) IN
    CASE data[0] = 65 -> Humidity(F32Mul(F32FromU16(value), F32_0_01))
      [] data[0] = 66 -> Temperature(F32Mul(F32FromU16(value), F32_0_0625))
      [] data[0] = 80 -> CO2(value)
      [] OTHER        -> Unknown(data[0], value)

\* the match of decode on data[0]
ReadingOf(data) ==
    LET value == ValueOf(data) IN
    CASE data[0] = 65 -> Humidity(F32Mul(F32FromU16(value), F32_0_01))
      [] data[0] = 66 -> Temperature(F32Sub(F32Mul(F32FromU16(value), F32_0_0625),
                                            F32_273_15))
      [] data[0] = 80 -> CO2(value)
      [] OTHER        -> Unknown(data[0], value)

\* decode gone wrong: the checksum is tested before the terminator
DecodeChecksumFirst(data) ==
    IF ChecksumFails(data) THEN Err("Checksum")
    ELSE IF TerminatorFails(data) THEN Err("InvalidMessage")
    ELSE Ok(ReadingOf(data))

decode(data) ==
    IF TerminatorFails(data) THEN Err("InvalidMessage")
    ELSE IF ChecksumFails(data) THEN Err("Checksum")
    ELSE Ok(ReadingOf(data))

(***************************************************************************)
(* zg_co2: Serialize and Deserialize for SingleReading                     *)
(***************************************************************************)
\* impl Serialize: the variant index and the variant name that serialize
\* gives the serializer, and whether it is given as a tuple variant
VariantOf(reading) ==
    CASE reading.kind = "Humidity"    ->
             [index |-> 0, name |-> "Humidity",    tuple |-> FALSE]
      [] reading.kind = "Temperature" ->
             [index |-> 1, name |-> "Temperature", tuple |-> FALSE]
      [] reading.kind = "CO2"         ->
             [index |-> 2, name |-> "CO2",         tuple |-> FALSE]
      [] reading.kind = "Unknown"     ->
             [index |-> 4, name |-> "Unknown",     tuple |-> TRUE]

\* What a format writes: it identifies the variant by its name as a string
\* ("name"), by its name as bytes ("bytes") or by its index ("index"), and
\* writes the fields of the variant after it.
Formats == {"name", "bytes", "index"}

NoWire == [by |-> "none", index |-> 0, name |-> "", tuple |-> FALSE,
           fields |-> NoReading]

serialize(reading, by) ==
    LET v == VariantOf(reading) IN
    [by     |-> by,
     index  |-> IF by = "index" THEN v.index ELSE 0,
     name   |-> IF by = "index" THEN "" ELSE v.name,
     tuple  |-> v.tuple,
     fields |-> reading]

\* Result<Field>
OkField(x) == [ok |-> TRUE,  err |-> "none", field |-> x]
ErrField(x) == [ok |-> FALSE, err |-> x,      field |-> "none"]

\* FieldVisitor::visit_u64
visit_u64(v) ==
    CASE v = 0 -> OkField("Humidity")
      [] v = 1 -> OkField("Temperature")
      [] v = 2 -> OkField("CO2")
      [] v = 3 -> OkField("Unknown")
      [] OTHER -> ErrField("invalid_value")

\* FieldVisitor::visit_str
visit_str(v) ==
    CASE v = "Humidity"    -> OkField("Humidity")
      [] v = "Temperature" -> OkField("Temperature")
      [] v = "CO2"         -> OkField("CO2")
      [] v = "Unknown"     -> OkField("Unknown")
      [] OTHER             -> ErrField("unknown_variant")

\* FieldVisitor::visit_bytes
visit_bytes(v) ==
    CASE v = "Humidity"    -> OkField("Humidity")
      [] v = "Temperature" -> OkField("Temperature")
      [] v = "CO2"         -> OkField("CO2")
      [] v = "Unknown"     -> OkField("Unknown")
      [] OTHER             -> ErrField("unknown_variant")

\* SingleReadingVisitor::visit_enum on the Field found and the fields that
\* follow it: newtype_variant for the first three, tuple_variant for Unknown
visit_enum(field, w) ==
    CASE field = "Humidity"    -> Ok(Humidity(w.fields.f))
      [] field = "Temperature" -> Ok(Temperature(w.fields.f))
      [] field = "CO2"         -> Ok(CO2(w.fields.u))
      [] field = "Unknown"     -> Ok(Unknown(w.fields.k, w.fields.u))

\* impl Deserialize: deserialize_enum finds the Field with the visit method
\* of the format, then visit_enum reads the fields
deserialize(w) ==
    LET found == CASE w.by = "index" -> visit_u64(w.index)
                   [] w.by = "name"  -> visit_str(w.name)
                   [] w.by = "bytes" -> visit_bytes(w.name)
    IN IF found.ok THEN visit_enum(found.field, w) ELSE Err(found.err)

(***************************************************************************)
(* co2mon: decrypt                                                         *)
(***************************************************************************)
\* b"Htemp99e"
Magic == Arr(<<72, 116, 101, 109, 112, 57, 57, 101>>)

\* data.swap(0, 2); data.swap(1, 4); data.swap(3, 7); data.swap(5, 6)
Shuffle(data) == Swap(Swap(Swap(Swap(data, 0, 2), 1, 4), 3, 7), 5, 6)

\* XorKey gone wrong: | where the source has ^
OrKey(data, k) == [i \in 0..7 |-> Or8(data[i], k[i])]

\* for (r, k) in data.iter_mut().zip(key.iter()) { *r ^= k }
XorKey(data, k) == [i \in 0..7 |-> Xor8(data[i], k[i])]

\* data[i] = data[i - 1] << 5 | data[i] >> 3
ShiftStep(data, i) == [data EXCEPT ![i] = Or8(Shl8(data[i - 1], 5), Shr8(data[i], 3))]

\* The assignments data[i] = ..., data[i - 1] = ..., ..., data[1] = ..., in the
\* order of the source: each reads the array as the ones before left it.
RECURSIVE ShiftDown(_, _)
ShiftDown(data, i) ==
    IF i = 0 THEN data
    ELSE Only({ShiftDown(d, i - 1) : d \in {ShiftStep(data, i)}})

\* Rotate gone wrong: the bits shifted out of byte 7 are dropped
RotateNoCarry(data) ==
    Only({[d EXCEPT ![0] = Shr8(d[0], 3)] : d \in {ShiftDown(data, 7)}})

\* let tmp = data[7] << 5; data[7] = ...; ...; data[0] = tmp | data[0] >> 3
Rotate(data) ==
    Only({[d EXCEPT ![0] = Or8(tmp, Shr8(d[0], 3))] :
            tmp \in {Shl8(data[7], 5)}, d \in {ShiftDown(data, 7)}})

\* *r = r.wrapping_sub(m << 4 | m >> 4)
Unmask(data) ==
    [i \in 0..7 |-> WrappingSub(data[i], Or8(Shl8(Magic[i], 4), Shr8(Magic[i], 4)))]

decrypt(data, k) ==
    Only({Unmask(rotated) :
            rotated \in {Rotate(keyed) :
                keyed \in {XorKey(swapped, k) :
                    swapped \in {Shuffle(data)}}}})

(***************************************************************************)
(* co2mon: the transport, Sensor::read_one and Sensor::read                *)
(***************************************************************************)
\* Option<f32> and Option<u16>
NoneF32    == [some |-> FALSE, val |-> F32Zero]
SomeF32(x) == [some |-> TRUE,  val |-> x]
NoneU16    == [some |-> FALSE, val |-> 0]
SomeU16(v) == [some |-> TRUE,  val |-> v]

\* Result<Reading>
OkReading(t, c) == [ok |-> TRUE,  err |-> "none", temperature |-> t,       co2 |-> c]
ErrReading(x)   == [ok |-> FALSE, err |-> x,      temperature |-> F32Zero, co2 |-> 0]
NotReturned     == ErrReading("pending")

\* Option<Duration>: a Duration is whole seconds (u64) and nanoseconds below a
\* second (u32)
NoDuration            == [some |-> FALSE, secs |-> 0,    nanos |-> 0]
SomeDuration(secs, n) == [some |-> TRUE,  secs |-> secs, nanos |-> n]

\* i32::MAX, the largest value i32::try_from accepts
I32Max == 2147483647

\* Duration::subsec_millis: the whole milliseconds below a second
SubsecMillis(d) == d.nanos \div 1000000

\* i32::try_from(d.as_millis()).is_ok(): as_millis() is the u128
\* secs * 1000 + subsec_millis, never negative, so it fits when it is at most
\* i32::MAX.  The comparison is made on the seconds, for the product of a
\* large secs is beyond the integers of the model.
FitsI32(d) == d.secs <= (I32Max - SubsecMillis(d)) \div 1000

\* Duration::as_millis, for a duration that FitsI32
AsMillis(d) == d.secs * 1000 + SubsecMillis(d)

\* Result<i32>
OkI32(v) == [ok |-> TRUE,  err |-> "none", val |-> v]
ErrI32(x) == [ok |-> FALSE, err |-> x,      val |-> 0]

\* OpenTimeout gone wrong: a timeout that is too large is clamped to i32::MAX
OpenTimeoutSaturating(opt) ==
    IF ~opt.some THEN OkI32(-1)
    ELSE IF FitsI32(opt) THEN OkI32(AsMillis(opt))
    ELSE OkI32(I32Max)

\* options.timeout.map(|timeout| timeout.as_millis())
\*     .map_or(Ok(-1), i32::try_from).map_err(|_| Error::InvalidTimeout)
OpenTimeout(opt) ==
    IF ~opt.some THEN OkI32(-1)
    ELSE IF FitsI32(opt) THEN OkI32(AsMillis(opt))
    ELSE ErrI32("InvalidTimeout")

\* Result<Sensor>
NotOpened    == [ok |-> FALSE, err |-> "pending"]
OkSensor     == [ok |-> TRUE,  err |-> "none"]
ErrSensor(x) == [ok |-> FALSE, err |-> x]

\* impl From<zg_co2::Error> for Error
FromZg(err) ==
    CASE err = "InvalidMessage" -> "InvalidMessage"
      [] err = "Checksum"       -> "Checksum"

\* HidDevice::read_timeout(&mut data, timeout) into data = [0; 8]: the device
\* fails (hid), or n bytes of the report sent arrive in the buffer.
HidFailure       == [hid |-> TRUE,  n |-> 0, data |-> [i \in 0..7 |-> 0]]
HidRead(n, sent) == [hid |-> FALSE, n |-> n,
                     data |-> [i \in 0..7 |-> IF i < n THEN sent[i] ELSE 0]]

NoPacket == [i \in 0..4 |-> 0]

\* SkipsDecrypt gone wrong: the test made on the decrypted block
SkipsDecryptOnBlock(data, k) == decrypt(data, k)[4] = 13

\* if data[4] == 0x0d { data } else { decrypt(data, self.key) }
SkipsDecrypt(data, k) == data[4] = 13

\* Cleartext gone wrong: byte 4 is always taken from the frame as received
CleartextWithRawByte(data, k) ==
    IF SkipsDecrypt(data, k) THEN data
    ELSE [decrypt(data, k) EXCEPT ![4] = data[4]]

Cleartext(data, k) == IF SkipsDecrypt(data, k) THEN data ELSE decrypt(data, k)

\* ShortRead gone wrong: only an empty read is refused
EmptyRead(n) == n = 0

\* the test of read_one on the byte count: TRUE when the read is refused
ShortRead(n) == n # 8

\* Sensor::read_one on what read_timeout gave: ret is what it returns,
\* decrypted and decoded tell whether decrypt and decode were called, and
\* packet is what decode was given.
read_one(got, k) ==
    IF got.hid
    THEN [ret |-> Err("Hid"), decrypted |-> FALSE, decoded |-> FALSE,
          packet |-> NoPacket]
    ELSE IF ShortRead(got.n)
    THEN [ret |-> Err("InvalidMessage"), decrypted |-> FALSE, decoded |-> FALSE,
          packet |-> NoPacket]
    ELSE Only({ [ret |-> IF r.ok THEN r ELSE Err(FromZg(r.err)),
                 decrypted |-> ~SkipsDecrypt(got.data, k), decoded |-> TRUE,
                 packet |-> [i \in 0..4 |-> data[i]]] :
                data \in {Cleartext(got.data, k)},
                r \in {decode([i \in 0..4 |-> data[i]]) :
                         data \in {Cleartext(got.data, k)}} })

\* ReadTimeout gone wrong: what is left of the timeout, elapsed milliseconds
\* into the call
RemainingBudget(tmo, elapsed) ==
    IF tmo = -1 THEN -1
    ELSE IF elapsed < tmo THEN tmo - elapsed
    ELSE 0

\* self.device.read_timeout(&mut data, self.timeout): the timeout given to a
\* transport read issued elapsed milliseconds into the call is self.timeout,
\* whatever elapsed is
ReadTimeout(tmo, elapsed) == tmo

\* the record kept of a call of read_one: the transport read was issued at
\* the time at with the timeout asked
Trace(via, at, asked, got, r) ==
    [via |-> via, at |-> at, asked |-> asked,
     hid |-> got.hid, n |-> got.n, data |-> got.data,
     decrypted |-> r.decrypted, decoded |-> r.decoded, packet |-> r.packet,
     ret |-> r.ret]

NoTrace == Trace("none", 0, -1, HidRead(0, [i \in 0..7 |-> 0]),
                 [ret |-> Pending, decrypted |-> FALSE, decoded |-> FALSE,
                  packet |-> NoPacket])

\* NewTemperature gone wrong: a filled slot is never overwritten
KeepFirstTemperature(t, reading) ==
    IF reading.kind = "Temperature" /\ ~t.some THEN SomeF32(reading.f) ELSE t

\* match reading { Temperature(val) => temperature = Some(val), .. }
NewTemperature(t, reading) ==
    IF reading.kind = "Temperature" THEN SomeF32(reading.f) ELSE t

\* NewCo2 gone wrong: the value of an Unknown reading is stored as well
NewCo2OrUnknown(c, reading) ==
    IF reading.kind \in {"CO2", "Unknown"} THEN SomeU16(reading.u) ELSE c

\* match reading { CO2(val) => co2 = Some(val), .. }
NewCo2(c, reading) ==
    IF reading.kind = "CO2" THEN SomeU16(reading.u) ELSE c

\* BothPresent gone wrong: one filled slot is taken to be enough
EitherPresent(t, c) == t.some \/ c.some

\* if let (Some(temperature), Some(co2)) = (temperature, co2)
BothPresent(t, c) == t.some /\ c.some

\* DeadlinePassed gone wrong: >= where the source has >
DeadlineReached(tmo, duration) == tmo # -1 /\ duration >= tmo

\* DeadlinePassed gone wrong: the test for "no timeout" is left out
DeadlineAlways(tmo, duration) == duration > tmo

\* if self.timeout != -1 { .. duration.as_millis() > self.timeout as u128 }
\* (a timeout other than -1 is never negative, so the cast changes nothing)
DeadlinePassed(tmo, duration) == tmo # -1 /\ duration > tmo

\* Propagates gone wrong: a frame with a wrong checksum is skipped
PropagatesUnlessChecksum(ret) == ~ret.ok /\ ret.err # "Checksum"

\* let reading = self.read_one()?: TRUE when the ? returns the error from read
Propagates(ret) == ~ret.ok

\* LoopExit gone wrong: the deadline is tested before the slots
LoopExitDeadlineFirst(t, c, tmo, duration) ==
    IF DeadlinePassed(tmo, duration) THEN "timeout"
    ELSE IF BothPresent(t, c) THEN "ok"
    ELSE "continue"

\* One pass of the loop of Sensor::read after read_one returned Ok(reading)
\* and the slots were updated: return the combined reading, return Timeout,
\* or go round again.
LoopExit(t, c, tmo, duration) ==
    IF BothPresent(t, c) THEN "ok"
    ELSE IF DeadlinePassed(tmo, duration) THEN "timeout"
    ELSE "continue"

(***************************************************************************)
(* The bounds of the model and the inputs it draws                         *)
(***************************************************************************)
MaxTimeout == 1     \* the largest finite Sensor.timeout, in milliseconds
MaxStep    == 2     \* the longest one transport read takes, in milliseconds
MaxClock   == 4     \* the clock stops advancing here

\* OpenOptions::new() has key [0; 8]; the other is the key of with_key's example
Key0 == [i \in 0..7 |-> 0]
Key1 == Arr(<<98, 234, 29, 79, 20, 250, 229, 108>>)
Keys == {Key0, Key1}

Timeouts == {-1} \cup (0..MaxTimeout)

\* "any": the device may send any report, short reports and failures included;
\* "temperature": it only ever sends whole valid Temperature reports
Devices == {"any", "temperature"}

\* a device that cannot be opened: hidapi.open fails
Absent == "absent"

\* the timeouts given to OpenOptions::timeout: None, 0 ms, 1 ms and a bit, the
\* 5 s of OpenOptions::new, i32::MAX ms and a bit, i32::MAX + 1 ms, one second
\* more than fits, and a very long one
Durations ==
    { NoDuration,
      SomeDuration(0, 0),
      SomeDuration(0, 1999999),
      SomeDuration(5, 0),
      SomeDuration(2147483, 647999999),
      SomeDuration(2147483, 648000000),
      SomeDuration(2147484, 0),
      SomeDuration(I32Max, 999999999) }

\* Reports in the clear (byte 4 is 0x0d): two temperatures, two CO2 values, a
\* humidity, an unknown kind, a wrong checksum
ClearFrames ==
    { Arr(<<66, 18, 105, 189, 13, 0, 0, 0>>),
      Arr(<<66, 18, 106, 190, 13, 0, 0, 0>>),
      Arr(<<80, 4, 87, 171, 13, 0, 0, 0>>),
      Arr(<<80, 1, 144, 225, 13, 7, 8, 9>>),
      Arr(<<65, 0, 0, 65, 13, 0, 0, 0>>),
      Arr(<<109, 10, 95, 214, 13, 0, 0, 0>>),
      Arr(<<66, 18, 105, 0, 13, 0, 0, 0>>) }

\* Encrypted reports: CO2 1111 and Temperature 0x1269 under Key0, the same
\* temperature under Key1, a wrong checksum under Key0, CO2 6730 under Key0
\* (whose encrypted byte 4 happens to be 0x0d), and a report that is all zero
CipherFrames ==
    { Arr(<<108, 164, 162, 182, 93, 154, 156, 8>>),
      Arr(<<252, 164, 50, 182, 205, 154, 156, 152>>),
      Arr(<<225, 176, 80, 218, 39, 127, 102, 215>>),
      Arr(<<254, 164, 50, 182, 205, 154, 156, 176>>),
      Arr(<<4, 164, 163, 182, 13, 154, 156, 80>>),
      [i \in 0..7 |-> 0] }

Frames == ClearFrames \cup CipherFrames

\* the reports a device of kind dev may send to a sensor opened with k
Reports(dev, k) ==
    IF dev = "any" THEN Frames
    ELSE {f \in Frames :
            LET r == read_one(HidRead(8, f), k).ret
            IN r.ok /\ r.reading.kind = "Temperature"}

\* Reports for every device and key of the model, computed once
ReportsTable == [dev \in Devices |-> [k \in Keys |-> Reports(dev, k)]]

\* a device that could not be opened sends nothing
Sendable(dev, k) == IF dev \in Devices THEN ReportsTable[dev][k] ELSE {}

\* the byte counts a read may report: nothing, the five bytes of a packet
\* without the rest of the report, one byte short, the whole report
Counts(dev) == IF dev = "any" THEN {0, 5, 7, 8} ELSE {8}

\* everything read_timeout may give when the device is of kind dev
Reads(dev, k) ==
    {HidRead(n, f) : n \in Counts(dev), f \in Sendable(dev, k)}
    \cup (IF dev = "any" THEN {HidFailure} ELSE {})

\* read_one on every input the model draws, computed once
ReadOneTable ==
    [k \in Keys |-> [got \in Reads("any", k) |-> read_one(got, k)]]

(***************************************************************************)
(* The sensor: Sensor::read and Sensor::read_one as a state machine        *)
(***************************************************************************)
\* nothing serialized
SerdeIdle ==
    /\ measurement = NoReading
    /\ wire = NoWire
    /\ back = Pending

HarnessIdle ==
    /\ packet = NoPacket
    /\ decoded = Pending
    /\ frame = Key0
    /\ dkey = Key0
    /\ block = [done |-> FALSE, out |-> Key0]
    /\ SerdeIdle

\* an open Sensor on which nothing was called yet
SensorIdle ==
    /\ pc = "idle"
    /\ clock = 0
    /\ start = 0
    /\ temperature = NoneF32
    /\ co2 = NoneU16
    /\ result = NotReturned
    /\ one = NoTrace
    /\ seen = {}
    /\ firstT = NoneF32
    /\ lastT = NoneF32
    /\ firstC = NoneU16
    /\ lastC = NoneU16

\* Sensor::open: the key and the timeout of the options, the device found
Opened(dev) ==
    /\ key \in Keys
    /\ timeout \in Timeouts
    /\ device = dev
    /\ options = [key |-> key,
                  timeout |-> IF timeout = -1 THEN NoDuration
                              ELSE SomeDuration(0, timeout * 1000000)]
    /\ opened = OkSensor
    /\ SensorIdle
    /\ HarnessIdle

Init == Opened("any")

\* Sensor::read up to the loop: start = Instant::now(), both slots None
Call ==
    /\ pc = "idle"
    /\ clock + MaxTimeout + MaxStep <= MaxClock
    /\ pc' = "reading"
    /\ start' = clock
    /\ temperature' = NoneF32
    /\ co2' = NoneU16
    /\ result' = NotReturned
    /\ seen' = {}
    /\ firstT' = NoneF32
    /\ lastT' = NoneF32
    /\ firstC' = NoneU16
    /\ lastC' = NoneU16
    /\ one' = NoTrace
    /\ UNCHANGED <<harness, sensor, clock>>

\* the history of the call, after read_one returned ret
Remember(ret) ==
    IF ~ret.ok THEN UNCHANGED history
    ELSE LET r == ret.reading IN
         /\ seen' = seen \cup {r.kind}
         /\ firstT' = IF r.kind = "Temperature" /\ ~firstT.some
                      THEN SomeF32(r.f) ELSE firstT
         /\ lastT' = IF r.kind = "Temperature" THEN SomeF32(r.f) ELSE lastT
         /\ firstC' = IF r.kind = "CO2" /\ ~firstC.some
                      THEN SomeU16(r.u) ELSE firstC
         /\ lastC' = IF r.kind = "CO2" THEN SomeU16(r.u) ELSE lastC

\* One pass of the loop of Sensor::read: the transport read takes dt
\* milliseconds and gives got.
Iteration(got, dt) ==
    /\ pc = "reading"
    /\ clock + dt <= MaxClock
    /\ clock' = clock + dt
    /\ LET r == ReadOneTable[key][got] IN
       /\ one' = Trace("read", clock, ReadTimeout(timeout, clock - start), got, r)
       /\ Remember(r.ret)
       /\ IF Propagates(r.ret)
          THEN /\ result' = ErrReading(r.ret.err)
               /\ pc' = "idle"
               /\ UNCHANGED <<temperature, co2>>
          ELSE LET t    == NewTemperature(temperature, r.ret.reading)
                   c    == NewCo2(co2, r.ret.reading)
                   exit == LoopExit(t, c, timeout, (clock + dt) - start)
               IN /\ temperature' = t
                  /\ co2' = c
                  /\ result' = CASE exit = "ok" -> OkReading(t.val, c.val)
                                 [] exit = "timeout" -> ErrReading("Timeout")
                                 [] OTHER -> result
                  /\ pc' = IF exit = "continue" THEN "reading" ELSE "idle"
    /\ UNCHANGED <<harness, sensor, start>>

\* a pass of the loop in which the device delivers n bytes of a report
ReadFrame ==
    \E dt \in 0..MaxStep, n \in Counts(device), f \in Sendable(device, key) :
        Iteration(HidRead(n, f), dt)

\* a pass of the loop in which the transport fails
ReadFails ==
    /\ device = "any"
    /\ \E dt \in 0..MaxStep : Iteration(HidFailure, dt)

\* Sensor::read_one called by itself
ReadOne ==
    /\ pc = "idle"
    /\ \E dt \in 0..MaxStep :
         /\ clock + dt <= MaxClock
         /\ clock' = clock + dt
         /\ \E got \in Reads(device, key) :
              one' = Trace("read_one", clock, ReadTimeout(timeout, 0), got,
                           ReadOneTable[key][got])
    /\ UNCHANGED <<harness, sensor, pc, start, temperature, co2, result, history>>

\* calls of Sensor::read
Next == Call \/ ReadFrame \/ ReadFails

Spec == Init /\ [][Next]_vars

\* calls of Sensor::read_one alone
ReadOneSpec == Init /\ [][ReadOne]_vars

\* OpenOptions built and not yet opened: no Sensor, its fields hold nothing
Closed ==
    /\ options \in [key : Keys, timeout : Durations]
    /\ device \in {"any", Absent}
    /\ opened = NotOpened
    /\ key = Key0
    /\ timeout = 0
    /\ pc = "closed"
    /\ clock = 0
    /\ start = 0
    /\ temperature = NoneF32
    /\ co2 = NoneU16
    /\ result = NotReturned
    /\ one = NoTrace
    /\ seen = {}
    /\ firstT = NoneF32
    /\ lastT = NoneF32
    /\ firstC = NoneU16
    /\ lastC = NoneU16
    /\ HarnessIdle

\* Sensor::open: the device is opened and sent the key, then the timeout is
\* converted; the Sensor exists only if every step went well.
Open ==
    /\ pc = "closed"
    /\ IF device = Absent
       THEN /\ opened' = ErrSensor("Hid")
            /\ pc' = "failed"
            /\ UNCHANGED <<key, timeout>>
       ELSE LET t == OpenTimeout(options.timeout) IN
            IF t.ok
            THEN /\ opened' = OkSensor
                 /\ key' = options.key
                 /\ timeout' = t.val
                 /\ pc' = "idle"
            ELSE /\ opened' = ErrSensor(t.err)
                 /\ pc' = "failed"
                 /\ UNCHANGED <<key, timeout>>
    /\ UNCHANGED <<harness, device, options, clock, start, temperature, co2,
                   result, one, history>>

\* Sensor::read_one called before the first call of Sensor::read
ReadOneFirst == result = NotReturned /\ ReadOne

\* a Sensor opened from its options, then read with read_one and with read
OpenNext == Open \/ ReadOneFirst \/ Call \/ ReadFrame \/ ReadFails

OpenSpec == Closed /\ [][OpenNext]_vars

\* The same calls on a device that only ever sends Temperature reports.  A pass
\* of the loop during which the clock moves is TimePasses: wall-clock time
\* advances, so the loop cannot go round for ever within one millisecond.
TimePasses ==
    \E dt \in 1..MaxStep, n \in Counts(device), f \in Sendable(device, key) :
        Iteration(HidRead(n, f), dt)

TempNext == Call \/ ReadFrame

TempSpec == Opened("temperature") /\ [][TempNext]_vars /\ WF_vars(TimePasses)

(***************************************************************************)
(* zg_co2::decode and decrypt on their own, on inputs drawn in Init        *)
(***************************************************************************)
\* an open Sensor that is never used
SensorParked ==
    /\ key = Key0
    /\ timeout = -1
    /\ device = "any"
    /\ options = [key |-> Key0, timeout |-> NoDuration]
    /\ opened = OkSensor
    /\ SensorIdle

Kinds       == {65, 66, 80, 0, 13, 67, 109, 255}
HighBytes   == {0, 4, 17, 18, 26, 128, 255}
LowBytes    == {0, 18, 87, 105, 255}
Terminators == {13, 0, 12, 14, 255}

\* the checksum bytes tried with b0, b1, b2: the right one, the right one plus
\* one, and three fixed bytes
CheckBytes(b0, b1, b2) ==
    {(b0 + b1 + b2) % 256, (b0 + b1 + b2 + 1) % 256, 0, 171, 189}

\* the packets decode is tried on
Packets ==
    UNION { { Arr(<<b0, b1, b2, b3, b4>>) :
                b3 \in CheckBytes(b0, b1, b2), b4 \in Terminators } :
            b0 \in Kinds, b1 \in HighBytes, b2 \in LowBytes }

DecodeInit ==
    /\ packet \in Packets
    /\ decoded = Pending
    /\ frame = Key0
    /\ dkey = Key0
    /\ block = [done |-> FALSE, out |-> Key0]
    /\ SerdeIdle
    /\ SensorParked

Decode ==
    /\ decoded = Pending
    /\ decoded' = decode(packet)
    /\ UNCHANGED <<packet, frame, dkey, block, serde, sensor, pc, clock, start,
                   temperature, co2, result, one, history>>

DecodeSpec == DecodeInit /\ [][Decode]_vars

\* the frame with the one bit b set, bit 0 the top bit of byte 0
OneBit(b) == [i \in 0..7 |-> IF i = b \div 8 THEN Pow2(7 - (b % 8)) ELSE 0]

\* the frames decrypt is tried on: those of the sensor model, every frame
\* with one bit set, every frame whose bytes are 0x00 or 0xff
SampleFrames ==
    Frames \cup {OneBit(b) : b \in 0..63} \cup [0..7 -> {0, 255}]

\* the keys: those of the sensor model, all ones, 0xa5 at one position
SampleKeys ==
    Keys \cup {[i \in 0..7 |-> 255]}
         \cup {[i \in 0..7 |-> IF i = j THEN 165 ELSE 0] : j \in 0..7}

DecryptInit ==
    /\ frame \in SampleFrames
    /\ dkey \in SampleKeys
    /\ block = [done |-> FALSE, out |-> Key0]
    /\ packet = NoPacket
    /\ decoded = Pending
    /\ SerdeIdle
    /\ SensorParked

Decrypt ==
    /\ ~block.done
    /\ block' = [done |-> TRUE, out |-> decrypt(frame, dkey)]
    /\ UNCHANGED <<packet, decoded, frame, dkey, serde, sensor, pc, clock, start,
                   temperature, co2, result, one, history>>

DecryptSpec == DecryptInit /\ [][Decrypt]_vars

\* the readings serialized: those of tests::test_serde, Humidity(52.3),
\* Temperature(20.0), CO2(462) and Unknown(b'R', 10438), and every reading
\* that decode gives for a packet of Packets
SerdeValues ==
    { Humidity([m |-> 13710131, e |-> -18]),
      Temperature([m |-> 10485760, e |-> -19]),
      CO2(462),
      Unknown(82, 10438) }
    \cup {decode(p).reading : p \in {q \in Packets : decode(q).ok}}

SerdeInit ==
    /\ measurement \in SerdeValues
    /\ wire = NoWire
    /\ back = Pending
    /\ packet = NoPacket
    /\ decoded = Pending
    /\ frame = Key0
    /\ dkey = Key0
    /\ block = [done |-> FALSE, out |-> Key0]
    /\ SensorParked

Serialize ==
    /\ wire = NoWire
    /\ \E by \in Formats : wire' = serialize(measurement, by)
    /\ UNCHANGED <<packet, decoded, frame, dkey, block, measurement, back,
                   sensor, pc, clock, start, temperature, co2, result, one,
                   history>>

Deserialize ==
    /\ wire # NoWire
    /\ back = Pending
    /\ back' = deserialize(wire)
    /\ UNCHANGED <<packet, decoded, frame, dkey, block, measurement, wire,
                   sensor, pc, clock, start, temperature, co2, result, one,
                   history>>

SerdeNext == Serialize \/ Deserialize

SerdeSpec == SerdeInit /\ [][SerdeNext]_vars

(***************************************************************************)
(* Properties of Sensor::read                                              *)
(***************************************************************************)
\* C1: Sensor::read returns Ok only when both slots are filled and, within
\* that same call, a Temperature reading and a CO2 reading were decoded,
\* whatever else (Humidity, Unknown) came in between.
C1_OkOnlyAfterBothKinds ==
    result.ok =>
        /\ temperature.some /\ co2.some
        /\ {"Temperature", "CO2"} \subseteq seen

\* a combined reading returned after a Humidity and an Unknown reading were
\* decoded in the same call
C1_Witness ==
    /\ result.ok
    /\ {"Humidity", "Unknown"} \subseteq seen

\* C2: an Ok result carries the latest Temperature and the latest CO2 decoded
\* in the call (a later reading of a kind replaces the earlier one), and read
\* returns in the very pass in which both kinds have been decoded: the loop
\* never goes round again once both were seen.
C2_LatestOfEachKind ==
    /\ result.ok =>
           /\ lastT.some /\ result.temperature = lastT.val
           /\ lastC.some /\ result.co2 = lastC.val
    /\ pc = "reading" => ~({"Temperature", "CO2"} \subseteq seen)

\* a combined reading whose temperature replaced an earlier, different one
C2_Witness ==
    /\ result.ok
    /\ firstT.some /\ firstT.val # lastT.val
    /\ result.temperature = lastT.val

\* C3: on a device that sends only valid Temperature reports and with a finite
\* timeout, every call of read ends with Timeout; and Timeout is returned only
\* when more than timeout milliseconds have passed since the call began.
C3_TemperatureOnlyTimesOut ==
    /\ [](result.err = "Timeout" => timeout # -1 /\ clock - start > timeout)
    /\ (pc = "reading" /\ timeout # -1) ~> (pc = "idle" /\ result.err = "Timeout")

\* Timeout returned one millisecond past the budget, after Temperature only
C3_Witness ==
    /\ device = "temperature"
    /\ result.err = "Timeout"
    /\ clock - start = timeout + 1
    /\ seen = {"Temperature"}

\* C4: a transport read that reports a byte count other than 8 makes read_one
\* fail with InvalidMessage without calling decrypt or decode, and read
\* returns that InvalidMessage from the same pass: the loop is left, no
\* further read is issued.
C4_ShortReadIsInvalidMessage ==
    (one.via = "read" /\ ~one.hid /\ one.n # 8) =>
        /\ one.ret = Err("InvalidMessage")
        /\ ~one.decrypted /\ ~one.decoded
        /\ pc = "idle"
        /\ result = ErrReading("InvalidMessage")

\* a read of five bytes, which hold a whole valid packet in the clear
C4_Witness ==
    /\ one.via = "read" /\ ~one.hid /\ one.n = 5
    /\ decode([i \in 0..4 |-> one.data[i]]).ok
    /\ result = ErrReading("InvalidMessage")

\* C5: when the packet of a frame read by Sensor::read fails to decode, read
\* returns that same error from the same pass, whatever the slots hold: the
\* loop is left, the frame is not skipped, no further read is issued.
C5_DecodeErrorsPropagate ==
    (one.via = "read" /\ one.decoded /\ ~decode(one.packet).ok) =>
        /\ pc = "idle"
        /\ result = ErrReading(decode(one.packet).err)
        /\ result.err \in {"InvalidMessage", "Checksum"}

\* a Checksum error returned when the temperature slot was already filled
C5_Witness ==
    /\ one.via = "read" /\ one.decoded
    /\ result = ErrReading("Checksum")
    /\ temperature.some /\ ~co2.some

(***************************************************************************)
(* Properties of zg_co2::decode                                            *)
(***************************************************************************)
\* the 8-bit sum of bytes 0, 1 and 2 of a packet
SumOf(p) == (p[0] + p[1] + p[2]) % 256

\* C6: decode returns InvalidMessage exactly when byte 4 is not 0x0d, whether
\* or not the checksum is right; Checksum exactly when byte 4 is 0x0d and
\* byte 3 is not the 8-bit sum of bytes 0, 1, 2; and Ok in every other case.
C6_DecodeErrors ==
    decoded # Pending =>
        /\ decoded.err = "InvalidMessage" <=> packet[4] # 13
        /\ decoded.err = "Checksum" <=> (packet[4] = 13 /\ packet[3] # SumOf(packet))
        /\ decoded.ok <=> (packet[4] = 13 /\ packet[3] = SumOf(packet))
        /\ decoded.ok \/ decoded.err \in {"InvalidMessage", "Checksum"}

\* InvalidMessage for a packet in which the checksum is wrong as well
C6_Witness ==
    /\ decoded = Err("InvalidMessage")
    /\ packet[4] # 13
    /\ packet[3] # SumOf(packet)

\* C7: a packet with byte 4 = 0x0d and the right checksum whose byte 0 is not
\* 'A', 'B' or 'P' decodes to Ok(Unknown(byte 0, byte 1 * 256 + byte 2)).
C7_UnknownKinds ==
    (decoded # Pending /\ packet[4] = 13 /\ packet[3] = SumOf(packet)
        /\ packet[0] \notin {65, 66, 80}) =>
        decoded = Ok(Unknown(packet[0], packet[1] * 256 + packet[2]))

\* kind 'C' (0x43), one past 'B', with the largest value
C7_Witness ==
    /\ decoded.ok
    /\ decoded.reading.kind = "Unknown"
    /\ packet[0] = 67
    /\ decoded.reading.u = 65535

\* an f32 that is a whole number of 2^-15, in units of 2^-15
InUnitsOf2To15(x) ==
    IF x.e + 15 >= 0 THEN x.m * Pow2(x.e + 15) ELSE x.m \div Pow2(-(x.e + 15))

\* |x - (v / 16 - 273.15)| <= 0.0001, for x a whole number of 2^-15: in
\* fifths of 2^-15, x is 5 * InUnitsOf2To15(x) and v / 16 - 273.15 is
\* 10240 * v - 44752896, and 0.0001 is 16.4 of them
NearCelsius(x, v) ==
    LET diff == 5 * InUnitsOf2To15(x) - (10240 * v - 44752896)
    IN -16 <= diff /\ diff <= 16

\* |x - v / 100| is at most one unit in the last place of x
NearHundredth(x, v) ==
    IF v = 0 THEN x = F32Zero
    ELSE LET diff == 100 * x.m - v * Pow2(-x.e)
         IN -100 <= diff /\ diff <= 100

\* C8: for a valid packet, byte 0 selects the variant and the payload comes
\* from value = byte 1 * 256 + byte 2: 'P' gives CO2(value) unchanged, 'B'
\* gives Temperature(value / 16 - 273.15) to within 0.0001 degrees, 'A' gives
\* Humidity(value / 100) to within one unit in the last place of the f32.
C8_KnownKinds ==
    (decoded # Pending /\ packet[4] = 13 /\ packet[3] = SumOf(packet)) =>
        LET value == packet[1] * 256 + packet[2]
            r     == decoded.reading
        IN /\ decoded.ok
           /\ packet[0] = 80 => r.kind = "CO2" /\ r.u = value
           /\ packet[0] = 66 => r.kind = "Temperature" /\ NearCelsius(r.f, value)
           /\ packet[0] = 65 => r.kind = "Humidity" /\ NearHundredth(r.f, value)
           /\ r.kind \in {"CO2", "Temperature", "Humidity"}
                  => packet[0] \in {80, 66, 65}

\* decode([0x42, 0x12, 0x69, 0xbd, 0x0d]): 0x1269 / 16 - 273.15 = 21.4125
C8_Witness ==
    /\ packet = Arr(<<66, 18, 105, 189, 13>>)
    /\ decoded.ok
    /\ decoded.reading.kind = "Temperature"
    /\ NearCelsius(decoded.reading.f, 4713)

(***************************************************************************)
(* Properties of decrypt and Sensor::read_one                              *)
(***************************************************************************)
\* where each byte comes from under the swaps (0,2), (1,4), (3,7), (5,6)
SwapSource == Arr(<<2, 4, 0, 7, 1, 6, 5, 3>>)

\* bit b of a byte, bit 0 its top bit
ByteBit(a, b) == (a \div Pow2(7 - b)) % 2

\* bit j of an 8-byte block read as one 64-bit value, bit 0 the top bit of byte 0
BitOf(x, j) == ByteBit(x[j \div 8], j % 8)

RECURSIVE BitsToByte(_, _, _)
BitsToByte(bits, from, n) ==
    IF n = 0 THEN 0
    ELSE bits[from] * Pow2(n - 1) + BitsToByte(bits, from + 1, n - 1)

\* the reference transform: swap, XOR with the key, rotate the 64 bits right
\* by 3 with wrap-around, subtract the nibble-swapped bytes of "Htemp99e"
Reference(f, k) ==
    LET keyed   == [i \in 0..7 |->
                      LET a == f[SwapSource[i]]
                      IN BitsToByte([b \in 0..7 |->
                             IF ByteBit(a, b) # ByteBit(k[i], b)
                             THEN 1 ELSE 0], 0, 8)]
        rotated == [j \in 0..63 |-> BitOf(keyed, (j + 61) % 64)]
    IN [i \in 0..7 |->
          (BitsToByte(rotated, 8 * i, 8) + 256
             - ((Magic[i] % 16) * 16 + Magic[i] \div 16)) % 256]

\* C9: decrypt is the reference transform on every frame and key; frame
\* [0x6c, 0xa4, 0xa2, 0xb6, 0x5d, 0x9a, 0x9c, 0x08] under the all-zero key
\* gives [0x50, 0x04, 0x57, 0xab, 0x0d, 0x00, 0x00, 0x00].
C9_DecryptIsReference ==
    block.done =>
        /\ block.out = Reference(frame, dkey)
        /\ (frame = Arr(<<108, 164, 162, 182, 93, 154, 156, 8>>) /\ dkey = Key0)
               => block.out = Arr(<<80, 4, 87, 171, 13, 0, 0, 0>>)

\* a key that is not zero and a frame whose low three bits wrap round to the
\* top of byte 0
C9_Witness ==
    /\ block.done
    /\ dkey = Key1
    /\ frame = [i \in 0..7 |-> 255]
    /\ block.out = Reference(frame, dkey)

\* C10: read_one skips decrypt exactly when byte 4 of the frame as received
\* is 0x0d, and then decodes the raw bytes 0..4 whatever the key; otherwise it
\* decodes bytes 0..4 of decrypt(frame, key).  The test looks at the raw
\* frame, never at the decrypted block.
C10_ShortcutOnRawFrame ==
    one.decoded =>
        /\ one.decrypted <=> one.data[4] # 13
        /\ one.data[4] = 13 => one.packet = [i \in 0..4 |-> one.data[i]]
        /\ one.data[4] # 13 =>
               one.packet = [i \in 0..4 |-> decrypt(one.data, key)[i]]
        /\ one.ret = decode(one.packet)

\* a frame received with byte 4 = 0x0d that would decrypt to a valid packet,
\* decoded as it came
C10_Witness ==
    /\ one.decoded /\ ~one.decrypted
    /\ decode([i \in 0..4 |-> decrypt(one.data, key)[i]]).ok
    /\ one.packet = [i \in 0..4 |-> one.data[i]]
    /\ one.ret = Err("Checksum")

(***************************************************************************)
(* Properties of Sensor::open                                              *)
(***************************************************************************)
\* a Duration of more than i32::MAX = 2147483 * 1000 + 647 whole milliseconds
TooLong(d) ==
    \/ d.secs > 2147483
    \/ d.secs = 2147483 /\ d.nanos \div 1000000 > 647

\* C11: Sensor::open with a timeout of more than i32::MAX whole milliseconds
\* never gives a Sensor: on a device that opens, it fails with InvalidTimeout
\* (a device that cannot be opened fails with its own error before the
\* timeout is looked at).  A timeout of None is stored as -1, any other as
\* its whole milliseconds, so an open Sensor has timeout = -1 or
\* 0 <= timeout <= i32::MAX; read and read_one run on an open Sensor only and
\* never return InvalidTimeout.
C11_OpenRejectsLongTimeout ==
    /\ (pc # "closed" /\ options.timeout.some /\ TooLong(options.timeout)) =>
           /\ ~opened.ok
           /\ pc = "failed"
           /\ device # Absent => opened = ErrSensor("InvalidTimeout")
    /\ opened.ok =>
           /\ timeout = -1 \/ (0 <= timeout /\ timeout <= I32Max)
           /\ timeout = -1 <=> ~options.timeout.some
           /\ options.timeout.some =>
                  /\ ~TooLong(options.timeout)
                  /\ timeout = options.timeout.secs * 1000
                                 + options.timeout.nanos \div 1000000
    /\ (pc \in {"idle", "reading"} \/ one.via # "none" \/ result # NotReturned)
           => opened.ok
    /\ result.err # "InvalidTimeout"
    /\ one.ret.err # "InvalidTimeout"

\* open refused for one millisecond more than i32::MAX
C11_Witness ==
    /\ options.timeout = SomeDuration(2147483, 648000000)
    /\ opened = ErrSensor("InvalidTimeout")
    /\ pc = "failed"

(***************************************************************************)
(* Properties of the errors of Sensor::read                                *)
(***************************************************************************)
\* the last transport read of the call brought nothing within its timeout
ReadTimedOut ==
    /\ ~one.hid /\ one.n = 0
    /\ one.asked # -1 /\ clock - one.at >= one.asked

\* C12: a call of read with a finite timeout that ends without a combined
\* reading because time ran out (the deadline test fired, or the transport
\* read brought no frame within its read timeout) returns Timeout and no
\* other error; InvalidMessage and Checksum are returned only when a frame
\* that did arrive is short or fails to decode.
C12_OutOfTimeIsTimeout ==
    (pc = "idle" /\ one.via = "read" /\ timeout # -1 /\ ~result.ok) =>
        /\ ReadTimedOut => result.err = "Timeout"
        /\ (one.ret.ok /\ clock - start > timeout) => result.err = "Timeout"
        /\ result.err \in {"InvalidMessage", "Checksum"} =>
               /\ ~one.hid /\ one.n > 0
               /\ one.n = 8 => (one.decoded /\ decode(one.packet).err = result.err)

\* C13: on a Sensor opened without a timeout (timeout = -1) read never
\* returns Timeout, and a pass of its loop whose frame decoded and that
\* leaves a slot empty always goes round again: the call ends only with the
\* combined reading, once both kinds were decoded, or with the error of
\* read_one.  While the transport keeps sending decodable frames of which
\* one kind is missing, the call does not return.
C13_NoTimeoutNeverTimesOut ==
    /\ [](timeout = -1 => result.err # "Timeout")
    /\ [][(timeout = -1 /\ pc = "reading") =>
            /\ (one'.ret.ok /\ ~(temperature'.some /\ co2'.some))
                   => (pc' = "reading" /\ result' = NotReturned)
            /\ pc' = "idle" =>
                   \/ result'.ok /\ {"Temperature", "CO2"} \subseteq seen'
                   \/ ~one'.ret.ok /\ result' = ErrReading(one'.ret.err)]_vars

\* no timeout, no CO2 so far, and the call still in its loop after more time
\* than any timeout of the model
C13_Witness ==
    /\ timeout = -1
    /\ pc = "reading"
    /\ clock - start > MaxTimeout
    /\ seen = {"Temperature", "Humidity", "Unknown"}

(***************************************************************************)
(* Properties of the transport reads of Sensor::read                       *)
(***************************************************************************)
\* C14 as the specification states it: every transport read issued by read is
\* given what is left of the timeout when it is issued (the timeout minus the
\* time since the call began, 0 when nothing is left), not the whole timeout
C14_ReadGetsRemainingBudget ==
    (one.via = "read" /\ timeout # -1) =>
        one.asked = (IF one.at - start < timeout
                     THEN timeout - (one.at - start) ELSE 0)

\* C14: every transport read issued by read is given the whole configured
\* timeout (self.timeout, -1 when there is none) as its read timeout, however
\* much time has passed since the call began.
C14_ReadGetsFullTimeout ==
    one.via = "read" => one.asked = timeout

\* a read issued when the whole timeout had already been used up, and given
\* the whole timeout again
C14_Witness ==
    /\ one.via = "read"
    /\ timeout = 1
    /\ one.at - start = timeout
    /\ one.asked = 1

(***************************************************************************)
(* Properties of Sensor::read_one                                          *)
(***************************************************************************)
\* the block read_one takes the packet from: the frame as received when its
\* byte 4 is 0x0d, the frame decrypted with the key of the Sensor otherwise
SourceOf(data, k) == IF data[4] = 13 THEN data ELSE decrypt(data, k)

\* C15 as the specification states it: on both paths the packet is bytes 0..3 of
\* the cleartext source followed by byte 4 of the frame as received
C15_PacketEndsWithRawByte ==
    one.decoded =>
        one.packet = [i \in 0..4 |-> IF i < 4 THEN SourceOf(one.data, key)[i]
                                     ELSE one.data[4]]

\* C15: the packet read_one hands to decode is bytes 0..4 of the cleartext
\* source.  Its byte 4 is byte 4 of the frame as received only on the
\* passthrough path (where the source is that frame); on the decrypting path
\* it is byte 4 of the decrypted block, and decode succeeds there only when
\* that byte is 0x0d, which the received byte 4 is not.
C15_PacketIsCleartextPrefix ==
    one.decoded =>
        /\ one.packet = [i \in 0..4 |-> SourceOf(one.data, key)[i]]
        /\ ~one.decrypted => one.packet[4] = one.data[4]
        /\ one.decrypted =>
               /\ one.packet[4] = decrypt(one.data, key)[4]
               /\ one.data[4] # 13
               /\ one.ret.ok => one.packet[4] = 13

\* an encrypted frame that decodes: the packet ends with the decrypted 0x0d,
\* not with the 0x5d received
C15_Witness ==
    /\ one.decoded /\ one.decrypted
    /\ one.ret.ok
    /\ one.data[4] = 93
    /\ one.packet[4] = 13

(***************************************************************************)
(* Properties of the loop of Sensor::read                                  *)
(***************************************************************************)
\* C16: a pass of the loop of read that decodes a Humidity or an Unknown
\* reading leaves the temperature slot and the co2 slot as they were and
\* never returns Ok: either the loop goes round again, nothing returned, or
\* the deadline test of that pass returns Timeout.
C16_OtherKindsAreDiscarded ==
    [][(pc = "reading" /\ one'.ret.ok
          /\ one'.ret.reading.kind \in {"Humidity", "Unknown"}) =>
         /\ temperature' = temperature
         /\ co2' = co2
         /\ ~result'.ok
         /\ \/ pc' = "reading" /\ result' = NotReturned
            \/ /\ pc' = "idle" /\ result' = ErrReading("Timeout")
               /\ timeout # -1 /\ clock' - start > timeout]_vars

\* an Unknown reading decoded after a Temperature: the temperature is kept,
\* the co2 slot is still empty and the loop goes on
C16_Witness ==
    /\ pc = "reading"
    /\ one.ret.ok /\ one.ret.reading.kind = "Unknown"
    /\ temperature.some /\ temperature.val = lastT.val
    /\ ~co2.some

(***************************************************************************)
(* decrypt as a bijection                                                  *)
(***************************************************************************)
\* The way back from a block to the frame, stage by stage: add the
\* nibble-swapped bytes of "Htemp99e", rotate the 64 bits left by 3, xor the
\* key, undo the swaps.
Encrypt(b, k) ==
    LET masked == [i \in 0..7 |->
                     (b[i] + (Magic[i] % 16) * 16 + Magic[i] \div 16) % 256]
        keyed  == [i \in 0..7 |->
                     ((masked[i] * 8) % 256) + (masked[(i + 1) % 8] \div 32)]
        plain  == [i \in 0..7 |-> Xor8(keyed[i], k[i])]
    IN [i \in 0..7 |-> plain[SwapSource[i]]]

\* C17: for every key decrypt is one-to-one and onto the 8-byte blocks.
\* Encrypt takes the block decrypt gives back to the frame it came from, so
\* two frames never give the same block; and decrypt takes the frame that
\* Encrypt gives for any block back to that block, so every block is the
\* image of a frame.  The block has 8 bytes and depends on the frame and the
\* key only; no other frame of the sensor model decrypts to it.
C17_DecryptIsBijection ==
    block.done =>
        /\ DOMAIN block.out = 0..7
        /\ \A i \in 0..7 : block.out[i] \in 0..255
        /\ Encrypt(block.out, dkey) = frame
        /\ decrypt(Encrypt(frame, dkey), dkey) = frame
        /\ \A other \in Frames \ {frame} : decrypt(other, dkey) # block.out

\* two frames that differ in one bit, under a key that is not zero: the
\* blocks differ
C17_Witness ==
    /\ block.done
    /\ dkey = Key1
    /\ frame = OneBit(63)
    /\ block.out # decrypt(OneBit(62), dkey)
    /\ Encrypt(block.out, dkey) = frame

\* C18: in every pass of the loop of read the slots are tested before the
\* deadline.  A pass that decodes a frame and leaves both slots filled
\* returns Ok with the two values, also when more than timeout milliseconds
\* have passed since the call began; Timeout is returned only by a pass that
\* leaves a slot empty.
C18_SlotsTestedBeforeDeadline ==
    /\ result.err = "Timeout" => ~(temperature.some /\ co2.some)
    /\ (pc = "idle" /\ one.via = "read" /\ one.ret.ok
          /\ temperature.some /\ co2.some) =>
           result = OkReading(temperature.val, co2.val)

\* a combined reading returned by a pass that ended past the deadline
C18_Witness ==
    /\ result.ok
    /\ timeout # -1
    /\ clock - start > timeout
    /\ one.ret.ok /\ one.ret.reading.kind = "CO2"

(***************************************************************************)
(* Properties of Serialize and Deserialize for SingleReading               *)
(***************************************************************************)
\* C19: for every variant, what Serialize emits for it (its index in a
\* format that writes indices, its name in a format that writes names) is
\* mapped back to the same variant by visit_u64, visit_str and visit_bytes,
\* so deserializing a serialized SingleReading gives back the value, in
\* every format.
C19_SerdeRoundTrip ==
    /\ wire # NoWire =>
           /\ wire.by = "index" =>
                  visit_u64(VariantOf(measurement).index) = OkField(measurement.kind)
           /\ wire.by = "name" =>
                  visit_str(VariantOf(measurement).name) = OkField(measurement.kind)
           /\ wire.by = "bytes" =>
                  visit_bytes(VariantOf(measurement).name) = OkField(measurement.kind)
    /\ back # Pending => back = Ok(measurement)

=============================================================================
